---- MODULE Spec2Model ----
(***************************************************************************)
(* Board representation and action enumeration of the shogi engine:        *)
(* src/src/types/bitboard.rs (Bitboard) and src/src/board.rs (Position,    *)
(* Board::load_fen, Board::get_actions).                                   *)
(*                                                                         *)
(* A Bitboard is a u128; it is modelled as the set of its set bit indices, *)
(* a subset of 0..127, so that shifts and complements behave as on the     *)
(* 128-bit word and not as on the 81-cell board.                           *)
(***************************************************************************)
EXTENDS Integers, Sequences, FiniteSets, TLC

VARIABLES pos, last, disciplined, states, stm, ply, outcome, actions, fen,
          debug_assertions, loads, iter

vars == <<pos, last, disciplined, states, stm, ply, outcome, actions, fen,
          debug_assertions, loads, iter>>

(***************************************************************************)
(* Squares and pieces (types/square.rs and types/piece.rs are not part of  *)
(* the sources at hand; their constants follow the uses in board.rs).      *)
(***************************************************************************)
NUM_SQUARES == 81

NUM_PIECE_TYPES == 14

WORD_BITS == 128

PAWN == 0

LANCE == 1

KNIGHT == 2

SILVER == 3

BISHOP == 4

ROOK == 5

GOLD == 6

KING == 7

PROMO_OFFSET == 8

SENTE == 0

GOTE == 1

Squares == 0 .. (NUM_SQUARES - 1)

Word == 0 .. (WORD_BITS - 1)

\* A Piece packs a category and a side into one small integer; NONE is the
\* distinguished value that is no (category, side) pair.
SIDE_SHIFT == 16

Piece(p, s) == s * SIDE_SHIFT + p

PieceSide(pc) == pc \div SIDE_SHIFT

PieceType(pc) == pc % SIDE_SHIFT

NONE == 2 * SIDE_SHIFT

(***************************************************************************)
(* Bitboard                                                                *)
(***************************************************************************)
EMPTY == {}

FULL == 0 .. 80

from_square(sq) == {sq} \cap Word

BitXor(a, b) == (a \ b) \cup (b \ a)

BitAnd(a, b) == a \cap b

BitOr(a, b) == a \cup b

Not(a) == Word \ a

Shl(a, n) == {b + n : b \in a} \cap Word

Shr(a, n) == {b - n : b \in {x \in a : x >= n}}

\* u128::trailing_zeros: the index of the lowest set bit, 128 for zero.
lsb(a) == IF a = EMPTY THEN WORD_BITS ELSE CHOOSE x \in a : \A y \in a : x <= y

\* u128::leading_zeros: the number of zero bits above the highest set bit,
\* 128 for zero.
msb(a) ==
    IF a = EMPTY THEN WORD_BITS
    ELSE (WORD_BITS - 1) - (CHOOSE x \in a : \A y \in a : y <= x)

\* Slip: the highest set bit is cleared instead of the lowest.
pop_lsb_clear_highest(a) ==
    [lsb |-> lsb(a), board |-> a \ {CHOOSE x \in a : \A y \in a : y <= x}]

\* self.0 &= self.0 - 1 on a non-empty word clears its lowest set bit.
pop_lsb(a) == [lsb |-> lsb(a), board |-> a \ {lsb(a)}]

\* The squares Biterator::next yields until it returns None, in order: each
\* call pops the lowest set bit, so the bits come out from bit 0 upwards.
Biterator(a) == SelectSeq([k \in 1 .. WORD_BITS |-> k - 1], LAMBDA b : b \in a)

fill_upwards(a) ==
    LET b1 == BitOr(a, Shl(a, 9))
        b2 == BitOr(b1, Shl(b1, 18))
        b3 == BitOr(b2, Shl(b2, 36))
        b4 == BitOr(b3, Shl(b3, 72))
    IN  BitAnd(b4, FULL)

fill_downwards(a) ==
    LET b1 == BitOr(a, Shr(a, 9))
        b2 == BitOr(b1, Shr(b1, 18))
        b3 == BitOr(b2, Shr(b2, 36))
        b4 == BitOr(b3, Shr(b3, 72))
    IN  BitAnd(b4, FULL)

file_fill(a) == BitOr(fill_upwards(a), fill_downwards(a))

(***************************************************************************)
(* Position: two side sets, one set per category, the mailbox, two hands.  *)
(***************************************************************************)
HandSlots == {PAWN, LANCE, KNIGHT, SILVER, BISHOP, ROOK, GOLD}

HandDefault == [c \in HandSlots |-> 0]

PositionDefault ==
    [sides   |-> [s \in 0 .. 1 |-> EMPTY],
     pieces  |-> [c \in 0 .. (NUM_PIECE_TYPES - 1) |-> EMPTY],
     mailbox |-> [sq \in Squares |-> NONE],
     hands   |-> [s \in 0 .. 1 |-> HandDefault]]

\* Slip: the category set is left alone.
add_piece_skip_category(st, sq, piece) ==
    [st EXCEPT !.sides[PieceSide(piece)] = BitXor(@, from_square(sq)),
               !.mailbox[sq] = piece]

add_piece(st, sq, piece) ==
    [st EXCEPT !.sides[PieceSide(piece)] = BitXor(@, from_square(sq)),
               !.pieces[PieceType(piece)] = BitXor(@, from_square(sq)),
               !.mailbox[sq] = piece]

\* Slip: the square is toggled in the other side's set.
remove_piece_wrong_side(st, sq, piece) ==
    [st EXCEPT !.sides[1 - PieceSide(piece)] = BitXor(@, from_square(sq)),
               !.pieces[PieceType(piece)] = BitXor(@, from_square(sq)),
               !.mailbox[sq] = NONE]

remove_piece(st, sq, piece) ==
    [st EXCEPT !.sides[PieceSide(piece)] = BitXor(@, from_square(sq)),
               !.pieces[PieceType(piece)] = BitXor(@, from_square(sq)),
               !.mailbox[sq] = NONE]

\* Slip: the captured piece is left in its side set and category set.
move_piece_keep_victim(st, from, piece, to, victim) ==
    add_piece(remove_piece(st, from, piece), to, piece)

move_piece(st, from, piece, to, victim) ==
    LET afterVictim == IF victim # NONE THEN remove_piece(st, to, victim) ELSE st
    IN  add_piece(remove_piece(afterVictim, from, piece), to, piece)

piece_on_square(st, sq) == st.mailbox[sq]

occupied(st) == BitOr(st.sides[0], st.sides[1])

sided_piece(st, piece, side) == BitAnd(st.sides[side], st.pieces[piece])

(***************************************************************************)
(* Board: the history of snapshots, the side to move and the ply counter.  *)
(***************************************************************************)
INIT_STATES == 256

BoardDefaultStates == [k \in 1 .. INIT_STATES |-> PositionDefault]

current_state(sts) == sts[Len(sts)]

(***************************************************************************)
(* Board::load_fen.  A text is the sequence of its whitespace-separated    *)
(* tokens; a token is a sequence of one-character strings.                 *)
(***************************************************************************)
UpperLetters == {"P", "L", "N", "S", "G", "B", "R", "K"}

LowerLetters == {"p", "l", "n", "s", "g", "b", "r", "k"}

PieceLetters == UpperLetters \cup LowerLetters

LetterType(c) ==
    CASE c \in {"p", "P"} -> PAWN
      [] c \in {"l", "L"} -> LANCE
      [] c \in {"n", "N"} -> KNIGHT
      [] c \in {"s", "S"} -> SILVER
      [] c \in {"g", "G"} -> GOLD
      [] c \in {"b", "B"} -> BISHOP
      [] c \in {"r", "R"} -> ROOK
      [] c \in {"k", "K"} -> KING

LetterSide(c) == IF c \in UpperLetters THEN SENTE ELSE GOTE

\* char::to_digit(10); -1 stands for None.
to_digit(c) ==
    CASE c = "0" -> 0 [] c = "1" -> 1 [] c = "2" -> 2 [] c = "3" -> 3
      [] c = "4" -> 4 [] c = "5" -> 5 [] c = "6" -> 6 [] c = "7" -> 7
      [] c = "8" -> 8 [] c = "9" -> 9 [] OTHER -> -1

\* The groups of a token between its '/' characters, in written order.
RECURSIVE SplitSlash(_, _, _)
SplitSlash(tok, k, cur) ==
    IF k > Len(tok) THEN << cur >>
    ELSE IF tok[k] = "/" THEN << cur >> \o SplitSlash(tok, k + 1, << >>)
    ELSE SplitSlash(tok, k + 1, Append(cur, tok[k]))

\* One character of the placement field (the match of lines 159-335).
\* acc = [ok, st, i, is_promoted]; ok = FALSE is a panic.
placement_char(acc, c, dbg) ==
    IF c = "+" THEN [acc EXCEPT !.is_promoted = TRUE]
    ELSE IF c \in PieceLetters THEN
        IF c \in {"g", "G", "k", "K"} THEN
            IF (dbg /\ acc.is_promoted) \/ acc.i >= NUM_SQUARES
            THEN [acc EXCEPT !.ok = FALSE]
            ELSE [acc EXCEPT
                    !.st = add_piece(acc.st, acc.i,
                                     Piece(LetterType(c), LetterSide(c))),
                    !.i = acc.i + 1]
        ELSE
            IF acc.i >= NUM_SQUARES
            THEN [acc EXCEPT !.ok = FALSE]
            ELSE [acc EXCEPT
                    !.st = add_piece(acc.st, acc.i,
                                     Piece(LetterType(c)
                                             + (IF acc.is_promoted
                                                THEN PROMO_OFFSET ELSE 0),
                                           LetterSide(c))),
                    !.is_promoted = FALSE,
                    !.i = acc.i + 1]
    ELSE IF to_digit(c) < 0 THEN [acc EXCEPT !.ok = FALSE]
    ELSE [acc EXCEPT !.i = acc.i + to_digit(c)]

RECURSIVE parse_rank(_, _, _, _)
parse_rank(rank, k, acc, dbg) ==
    IF ~acc.ok \/ k > Len(rank) THEN acc
    ELSE parse_rank(rank, k + 1, placement_char(acc, rank[k], dbg), dbg)

\* The ranks from the last written group to the first; is_promoted starts
\* FALSE in every rank.
RECURSIVE parse_ranks(_, _, _, _)
parse_ranks(ranks, r, acc, dbg) ==
    IF ~acc.ok \/ r < 1 THEN acc
    ELSE parse_ranks(ranks, r - 1,
                     parse_rank(ranks[r], 1,
                                [acc EXCEPT !.is_promoted = FALSE], dbg),
                     dbg)

parse_placement(tok, dbg) ==
    LET ranks == SplitSlash(tok, 1, << >>)
    IN  parse_ranks(ranks, Len(ranks),
                    [ok |-> TRUE, st |-> PositionDefault, i |-> 0,
                     is_promoted |-> FALSE],
                    dbg)

\* Hand::set: overwrite the held count of the piece's category; a category
\* with no slot (the king) is a fault.
HandHasSlot(piece) == PieceType(piece) \in HandSlots

HandSet(hand, piece, count) == [hand EXCEPT ![PieceType(piece)] = count]

\* One character of the hand field (the match of lines 348-467).
\* acc = [ok, st, count].
hand_char(acc, c) ==
    IF c \in PieceLetters THEN
        LET piece == Piece(LetterType(c), LetterSide(c))
        IN  IF ~HandHasSlot(piece) THEN [acc EXCEPT !.ok = FALSE]
            ELSE [acc EXCEPT
                    !.st.hands[LetterSide(c)] = HandSet(@, piece, acc.count),
                    !.count = 1]
    ELSE IF to_digit(c) < 0 THEN [acc EXCEPT !.ok = FALSE]
    ELSE [acc EXCEPT !.count = to_digit(c)]

RECURSIVE parse_hand_chars(_, _, _)
parse_hand_chars(tok, k, acc) ==
    IF ~acc.ok \/ k > Len(tok) THEN acc
    ELSE parse_hand_chars(tok, k + 1, hand_char(acc, tok[k]))

parse_hand(tok, st) ==
    IF tok = << "-" >> THEN [ok |-> TRUE, st |-> st, count |-> 1]
    ELSE parse_hand_chars(tok, 1, [ok |-> TRUE, st |-> st, count |-> 1])

\* str::parse::<i16>: an optional sign, then one or more decimal digits, the
\* value within the i16 range.  [ok, value].
I16_MAX == 32767

RECURSIVE parse_digits(_, _, _)
parse_digits(tok, k, value) ==
    IF k > Len(tok) THEN value
    ELSE IF to_digit(tok[k]) < 0 \/ value < 0 THEN -1
    ELSE IF value * 10 + to_digit(tok[k]) > I16_MAX + 1 THEN -1
    ELSE parse_digits(tok, k + 1, value * 10 + to_digit(tok[k]))

parse_i16(tok) ==
    LET signed == Len(tok) > 0 /\ tok[1] \in {"+", "-"}
        first  == IF signed THEN 2 ELSE 1
        mag    == IF Len(tok) < first THEN -1 ELSE parse_digits(tok, first, 0)
        neg    == signed /\ tok[1] = "-"
    IN  IF mag < 0 \/ (~neg /\ mag > I16_MAX)
        THEN [ok |-> FALSE, value |-> 0]
        ELSE [ok |-> TRUE, value |-> IF neg THEN 0 - mag ELSE mag]

\* load_fen as a whole: what it leaves in the Board's three fields and
\* whether it returned or panicked.
load_fen(sts, side, plies, text, dbg) ==
    LET failed(s) == [panicked |-> TRUE, states |-> sts, stm |-> s, ply |-> plies]
        placed    == parse_placement(text[1], dbg)
        new_stm   == IF text[2] = << "w" >> THEN 1 ELSE 0
        handed    == parse_hand(text[3], placed.st)
        plied     == parse_i16(text[4])
    IN  IF Len(text) < 1 THEN failed(side)
        ELSE IF ~placed.ok THEN failed(side)
        ELSE IF Len(text) < 2 THEN failed(side)
        ELSE IF Len(text) < 3 THEN failed(new_stm)
        ELSE IF ~handed.ok THEN failed(new_stm)
        ELSE IF Len(text) >= 4 /\ ~plied.ok THEN failed(new_stm)
        ELSE [panicked |-> FALSE,
              states   |-> Append(sts, handed.st),
              stm      |-> new_stm,
              ply      |-> IF Len(text) >= 4 THEN plied.value ELSE plies]

(***************************************************************************)
(* Attack generators (movegen is not part of the sources at hand; these    *)
(* follow the movement rules of the specification: square = file + 9*rank, *)
(* the first side moves toward higher ranks, the second toward lower).     *)
(***************************************************************************)
BOARD_LEN == 9

FileOf(sq) == sq % BOARD_LEN

RankOf(sq) == sq \div BOARD_LEN

Forward(side) == IF side = 0 THEN 1 ELSE -1

OnBoard(f, r) == f \in 0 .. (BOARD_LEN - 1) /\ r \in 0 .. (BOARD_LEN - 1)

Step(sq, df, dr) ==
    IF OnBoard(FileOf(sq) + df, RankOf(sq) + dr)
    THEN {sq + df + BOARD_LEN * dr} ELSE {}

Steps(sq, deltas) == UNION {Step(sq, d[1], d[2]) : d \in deltas}

\* A ray stops at, and includes, the first occupied square.
RECURSIVE Ray(_, _, _, _)
Ray(sq, df, dr, occ) ==
    LET next == Step(sq, df, dr)
    IN  IF next = {} THEN {}
        ELSE IF next \subseteq occ THEN next
        ELSE next \cup Ray(sq + df + BOARD_LEN * dr, df, dr, occ)

get_lance_attacks(sq, occ, side) == Ray(sq, 0, Forward(side), occ)

get_knight_attacks(sq, side) ==
    Steps(sq, {<<-1, 2 * Forward(side)>>, <<1, 2 * Forward(side)>>})

get_silver_attacks(sq, side) ==
    Steps(sq, {<<-1, Forward(side)>>, <<0, Forward(side)>>, <<1, Forward(side)>>,
               <<-1, 0 - Forward(side)>>, <<1, 0 - Forward(side)>>})

get_gold_attacks(sq, side) ==
    Steps(sq, {<<-1, Forward(side)>>, <<0, Forward(side)>>, <<1, Forward(side)>>,
               <<-1, 0>>, <<1, 0>>, <<0, 0 - Forward(side)>>})

get_king_attacks(sq) ==
    Steps(sq, {<<-1, -1>>, <<0, -1>>, <<1, -1>>, <<-1, 0>>,
               <<1, 0>>, <<-1, 1>>, <<0, 1>>, <<1, 1>>})

get_bishop_attacks(sq, occ) ==
    Ray(sq, -1, -1, occ) \cup Ray(sq, 1, -1, occ)
        \cup Ray(sq, -1, 1, occ) \cup Ray(sq, 1, 1, occ)

get_rook_attacks(sq, occ) ==
    Ray(sq, -1, 0, occ) \cup Ray(sq, 1, 0, occ)
        \cup Ray(sq, 0, -1, occ) \cup Ray(sq, 0, 1, occ)

\* One step forward for a whole set of pawns: a single shift and mask.
setwise_pawns(pawns, side) ==
    IF side = 0 THEN BitAnd(Shl(pawns, BOARD_LEN), FULL) ELSE Shr(pawns, BOARD_LEN)

(***************************************************************************)
(* Board::get_actions.  An Action is a move (from, to, promo) or a drop     *)
(* (piece, to); the Actionlist is the sequence of pushes.                  *)
(***************************************************************************)
new_move(from, to, promo) ==
    [kind |-> "move", from |-> from, to |-> to, promo |-> promo, piece |-> NONE]

new_drop(piece, to) ==
    [kind |-> "drop", from |-> to, to |-> to, promo |-> FALSE, piece |-> piece]

as_stm(piece, side) == Piece(PieceType(piece), side)

\* Hand as an iterator: the held categories, lowest first, as pieces.
RECURSIVE HandIter(_, _)
HandIter(hand, c) ==
    IF c >= NUM_PIECE_TYPES THEN << >>
    ELSE IF c \in HandSlots /\ hand[c] > 0
         THEN << Piece(c, SENTE) >> \o HandIter(hand, c + 1)
         ELSE HandIter(hand, c + 1)

\* The match of lines 487-503 (a loaded Position holds no other category, so
\* the `invalid piece' arm is never taken).
square_attacks(piece, sq, occ, side) ==
    LET t == PieceType(piece)
    IN  CASE t = PAWN -> EMPTY
          [] t = LANCE -> get_lance_attacks(sq, occ, side)
          [] t = KNIGHT -> get_knight_attacks(sq, side)
          [] t = SILVER -> get_silver_attacks(sq, side)
          [] t = BISHOP -> get_bishop_attacks(sq, occ)
          [] t = ROOK -> get_rook_attacks(sq, occ)
          [] t \in {GOLD, PAWN + PROMO_OFFSET, LANCE + PROMO_OFFSET,
                    KNIGHT + PROMO_OFFSET, SILVER + PROMO_OFFSET}
                -> get_gold_attacks(sq, side)
          [] t = KING -> get_king_attacks(sq)
          [] t = BISHOP + PROMO_OFFSET
                -> BitOr(get_bishop_attacks(sq, occ), get_king_attacks(sq))
          [] t = ROOK + PROMO_OFFSET
                -> BitOr(get_rook_attacks(sq, occ), get_king_attacks(sq))

promotion_zone(bit, side) == (side = 0 /\ bit >= 54) \/ (side = 1 /\ bit < 27)

\* Slip-free reading of the rule: either end of the move in the zone.
can_promote_either_end(piece, sq, bit, side) ==
    PieceType(piece) < GOLD /\ (promotion_zone(sq, side) \/ promotion_zone(bit, side))

\* The test of lines 510-511 (the origin sq is not consulted).
can_promote(piece, sq, bit, side) ==
    PieceType(piece) < GOLD /\ promotion_zone(bit, side)

\* The pushes for one origin and its destinations (lines 509-516).
RECURSIVE move_actions(_, _, _, _)
move_actions(piece, sq, bits, side) ==
    IF bits = << >> THEN << >>
    ELSE (IF can_promote(piece, sq, Head(bits), side)
          THEN << new_move(sq, Head(bits), TRUE) >> ELSE << >>)
         \o << new_move(sq, Head(bits), FALSE) >>
         \o move_actions(piece, sq, Tail(bits), side)

\* The loop over the side's squares (lines 485-517).
RECURSIVE piece_actions(_, _, _, _, _)
piece_actions(st, sqs, occ, us, side) ==
    IF sqs = << >> THEN << >>
    ELSE LET sq      == Head(sqs)
             piece   == piece_on_square(st, sq)
             attacks == BitAnd(square_attacks(piece, sq, occ, side), Not(us))
         IN  move_actions(piece, sq, Biterator(attacks), side)
             \o piece_actions(st, Tail(sqs), occ, us, side)

\* Slip: the origin is always taken one rank below the destination.
pawn_origin_one_way(bit, side) == (bit - 9) % 256

\* Line 528: (bit as i16 + (-9 | 9)) as u8.
pawn_origin(bit, side) == (bit + (IF side = 0 THEN -9 ELSE 9)) % 256

\* The bulk pawn pushes (lines 527-533).
RECURSIVE pawn_actions(_, _)
pawn_actions(bits, side) ==
    IF bits = << >> THEN << >>
    ELSE (IF promotion_zone(Head(bits), side)
          THEN << new_move(pawn_origin(Head(bits), side), Head(bits), TRUE) >>
          ELSE << >>)
         \o << new_move(pawn_origin(Head(bits), side), Head(bits), FALSE) >>
         \o pawn_actions(Tail(bits), side)

\* The squares a held piece may be dropped on (lines 539-566).
open_squares(piece, our_pawns, empty, side) ==
    IF PieceType(piece) = PAWN THEN
        LET free_files   == Not(file_fill(our_pawns))
            free_squares == IF side = 0 THEN Shr(free_files, 9)
                                        ELSE Shl(free_files, 9)
        IN  BitAnd(empty, free_squares)
    ELSE IF PieceType(piece) = KNIGHT THEN
        BitAnd(empty, IF side = 0 THEN Shr(FULL, 18) ELSE Shl(FULL, 18))
    ELSE IF PieceType(piece) = LANCE THEN
        BitAnd(empty, IF side = 0 THEN Shr(FULL, 9) ELSE Shl(FULL, 9))
    ELSE empty

drops_on(piece, sqs) == [k \in 1 .. Len(sqs) |-> new_drop(piece, sqs[k])]

RECURSIVE drop_actions(_, _, _, _)
drop_actions(held, our_pawns, empty, side) ==
    IF held = << >> THEN << >>
    ELSE drops_on(as_stm(Head(held), side),
                  Biterator(open_squares(Head(held), our_pawns, empty, side)))
         \o drop_actions(Tail(held), our_pawns, empty, side)

get_actions(sts, side) ==
    LET state        == current_state(sts)
        occ          == occupied(state)
        us           == state.sides[side]
        our_pawns    == BitAnd(us, state.pieces[PAWN])
        pawn_attacks == BitAnd(setwise_pawns(our_pawns, side), Not(us))
        empty        == BitAnd(Not(occ), FULL)
    IN  piece_actions(state, Biterator(us), occ, us, side)
        \o pawn_actions(Biterator(pawn_attacks), side)
        \o drop_actions(HandIter(state.hands[side], 0), our_pawns, empty, side)

(***************************************************************************)
(* Initial states.  InitPos: a default Position on its own, no Board built *)
(* (an empty history stands for the absent Board).  Init: a default Board. *)
(* `last' records the most recent placement call on `pos' (for a           *)
(* remove_piece: whether it directly follows the add_piece of the same     *)
(* square and piece, and what that add_piece found in the two sets);       *)
(* `disciplined' records whether every call so far named the square's real *)
(* contents.  `outcome' tells how the last Board call ended, `fen' is the   *)
(* text it was given (the tokens split_ascii_whitespace yields, each a     *)
(* sequence of characters), `actions' the list the last get_actions        *)
(* returned, `debug_assertions' whether the build checks debug_assert!,    *)
(* `loads' the number of load_fen calls that returned, `iter' a Bitboard   *)
(* with the Biterator made from it (idle where no Bitboard is iterated).   *)
(***************************************************************************)
\* bb: the caller's Bitboard; board: the Biterator's copy; yielded: the
\* squares next() has returned; ret: what the last call on bb returned;
\* lsb, msb: the results of the last lsb() and msb() calls (-1 before any).
IterOf(bb) ==
    [bb |-> bb, board |-> bb, yielded |-> << >>, ret |-> "new",
     lsb |-> -1, msb |-> -1]

IterIdle == IterOf(EMPTY)

NoCall ==
    [op |-> "none", sq |-> 0, piece |-> NONE, to |-> 0, victim |-> NONE,
     inSide |-> FALSE, inCat |-> FALSE, paired |-> FALSE]

InitPos ==
    /\ pos = PositionDefault
    /\ last = NoCall
    /\ disciplined = TRUE
    /\ states = << >>
    /\ stm = 0
    /\ ply = 0
    /\ outcome = "new"
    /\ actions = << >>
    /\ fen = << >>
    /\ debug_assertions \in BOOLEAN
    /\ loads = 0
    /\ iter = IterIdle

Init ==
    /\ pos = PositionDefault
    /\ last = NoCall
    /\ disciplined = TRUE
    /\ states = BoardDefaultStates
    /\ stm = 0
    /\ ply = 0
    /\ outcome = "new"
    /\ actions = << >>
    /\ fen = << >>
    /\ debug_assertions \in BOOLEAN
    /\ loads = 0
    /\ iter = IterIdle

(***************************************************************************)
(* Placement primitives called on a Position.                              *)
(***************************************************************************)
PosSquares == {0, 80}

\* A bystander square, only ever given a sente pawn.
Bystander == 40

PosPieces == {Piece(PAWN, SENTE), Piece(PAWN, GOTE), Piece(GOLD, SENTE)}

BoardUnchanged ==
    UNCHANGED <<states, stm, ply, outcome, actions, fen, debug_assertions,
                loads, iter>>

AddPiece(sq, piece) ==
    /\ pos' = add_piece(pos, sq, piece)
    /\ last' = [op |-> "add_piece", sq |-> sq, piece |-> piece,
                to |-> 0, victim |-> NONE,
                inSide |-> sq \in pos.sides[PieceSide(piece)],
                inCat |-> sq \in pos.pieces[PieceType(piece)],
                paired |-> FALSE]
    /\ disciplined' = (disciplined /\ pos.mailbox[sq] = NONE)
    /\ BoardUnchanged

RemovePiece(sq, piece) ==
    LET follows == last.op = "add_piece" /\ last.sq = sq /\ last.piece = piece
    IN  /\ pos' = remove_piece(pos, sq, piece)
        /\ last' = [op |-> "remove_piece", sq |-> sq, piece |-> piece,
                    to |-> 0, victim |-> NONE,
                    inSide |-> follows /\ last.inSide,
                    inCat |-> follows /\ last.inCat,
                    paired |-> follows]
        /\ disciplined' = (disciplined /\ pos.mailbox[sq] = piece)
        /\ BoardUnchanged

MovePiece(from, piece, to, victim) ==
    /\ pos' = move_piece(pos, from, piece, to, victim)
    /\ last' = [NoCall EXCEPT !.op = "move_piece", !.sq = from, !.piece = piece,
                                !.to = to, !.victim = victim]
    /\ disciplined' = (/\ disciplined
                       /\ from # to
                       /\ pos.mailbox[from] = piece
                       /\ pos.mailbox[to] = victim)
    /\ BoardUnchanged

NextPos ==
    \/ \E sq \in PosSquares, piece \in PosPieces : AddPiece(sq, piece)
    \/ AddPiece(Bystander, Piece(PAWN, SENTE))
    \/ \E sq \in PosSquares, piece \in PosPieces : RemovePiece(sq, piece)
    \/ \E from \in PosSquares, to \in PosSquares, piece \in PosPieces,
          victim \in PosPieces \cup {NONE} : MovePiece(from, piece, to, victim)

SpecPos == InitPos /\ [][NextPos]_vars

(***************************************************************************)
(* The three-view invariant of a Position.                                 *)
(***************************************************************************)
InNoView(st, sq) ==
    /\ sq \notin st.sides[0]
    /\ sq \notin st.sides[1]
    /\ \A c \in 0 .. (NUM_PIECE_TYPES - 1) : sq \notin st.pieces[c]

ThreeViews(st) ==
    /\ st.sides[0] \cap st.sides[1] = {}
    /\ \A sq \in Squares : (st.mailbox[sq] = NONE) <=> InNoView(st, sq)

\* C1 (as claimed): after any sequence of add_piece, remove_piece and
\* move_piece calls from the empty Position the side sets are disjoint and a
\* mailbox entry is NONE iff its square is in no side set and no category set.
C1_AnySequence == ThreeViews(pos)

\* C1 (amended): the same holds after every sequence in which add_piece is
\* called on an empty square, remove_piece names the piece on the square, and
\* move_piece has from # to, the piece on `from' and the contents of `to'.
C1_DisciplinedSequence == disciplined => ThreeViews(pos)

C1_Witness ==
    /\ disciplined
    /\ last.op = "move_piece"
    /\ pos.mailbox[80] = Piece(PAWN, SENTE)
    /\ pos.mailbox[0] = NONE

Cleared(st, sq, piece) ==
    /\ st.mailbox[sq] = NONE
    /\ sq \notin st.sides[PieceSide(piece)]
    /\ sq \notin st.pieces[PieceType(piece)]

\* C2 (as claimed): add_piece(s,p) directly followed by remove_piece(s,p)
\* leaves the mailbox of s NONE and s outside p's side set and category set,
\* whatever s held before.
C2_AddThenRemove ==
    (last.op = "remove_piece" /\ last.paired) => Cleared(pos, last.sq, last.piece)

\* C2 (amended): add_piece(s,p) directly followed by remove_piece(s,p) leaves
\* the mailbox of s NONE and, when s was in neither p's side set nor p's
\* category set before the add_piece, s outside both sets afterwards.
C2_AddThenRemoveFresh ==
    (last.op = "remove_piece" /\ last.paired)
        => /\ pos.mailbox[last.sq] = NONE
           /\ (~last.inSide /\ ~last.inCat) => Cleared(pos, last.sq, last.piece)

C2_Witness ==
    /\ last.op = "remove_piece"
    /\ last.paired
    /\ ~last.inSide
    /\ ~last.inCat
    /\ pos.mailbox[80] # NONE

(***************************************************************************)
(* Loading positions into a Board.                                         *)
(***************************************************************************)
MaxLoads == 2

MaxPlacementLen == 3

MaxHandLen == 3

PlacementAlphabet == {"+", "p", "G", "1", "/"}

HandAlphabet == {"1", "2", "P", "b"}

Strings(alphabet, n) == UNION {[1 .. k -> alphabet] : k \in 1 .. n}

Nine == << "9" >>

Dash == << "-" >>

Black == << "b" >>

White == << "w" >>

FenInputs ==
    {<< pl, Black, Dash >> : pl \in Strings(PlacementAlphabet, MaxPlacementLen)}
    \cup {<< Nine, White, h >> : h \in Strings(HandAlphabet, MaxHandLen)}
    \cup {<< Nine, s, h >> : s \in {Black, White}, h \in {Dash, << "p" >>}}
    \cup {<< Nine, White, Dash, n >> :
            n \in {<< "7" >>, << "-", "3" >>, << "x" >>, << "+" >>}}
    \cup {<< >>, << Nine >>, << Nine, White >>, << << "x" >>, White, Dash >>,
          << Nine, White, << "x" >> >>, << Nine, White, << "K" >> >>}

LoadFen(text) ==
    LET r == load_fen(states, stm, ply, text, debug_assertions)
    IN  /\ outcome # "panicked"
        /\ states' = r.states
        /\ stm' = r.stm
        /\ ply' = r.ply
        /\ outcome' = IF r.panicked THEN "panicked" ELSE "loaded"
        /\ fen' = text
        /\ actions' = << >>
        /\ loads' = IF r.panicked THEN loads ELSE loads + 1
        /\ UNCHANGED <<pos, last, disciplined, debug_assertions, iter>>

NextFen ==
    \E text \in FenInputs : Len(states) < INIT_STATES + MaxLoads /\ LoadFen(text)

SpecFen == Init /\ [][NextFen]_vars

Loaded == outcome = "loaded"

(***************************************************************************)
(* The hand field as the format reads it: each entry is a decimal count    *)
(* (1 when absent) and a piece letter.  [hands, num, inRange], num = -1    *)
(* when no count digit has been read since the last letter.                *)
(***************************************************************************)
MAX_HELD == 18

RECURSIVE DecimalHand(_, _, _)
DecimalHand(tok, k, acc) ==
    IF k > Len(tok) THEN acc
    ELSE IF tok[k] \in PieceLetters THEN
        LET n == IF acc.num < 0 THEN 1 ELSE acc.num
        IN  DecimalHand(tok, k + 1,
                [hands   |-> [acc.hands EXCEPT
                                ![LetterSide(tok[k])][LetterType(tok[k])] = n],
                 num     |-> -1,
                 inRange |-> acc.inRange /\ n \in 1 .. MAX_HELD])
    ELSE DecimalHand(tok, k + 1,
                [acc EXCEPT !.num = (IF @ < 0 THEN 0 ELSE @) * 10
                                     + to_digit(tok[k])])

DecimalHandOf(tok) ==
    DecimalHand(tok, 1, [hands   |-> [s \in 0 .. 1 |-> HandDefault],
                         num     |-> -1,
                         inRange |-> TRUE])

\* C8: after a load whose hand field holds entries with counts in 1..18, the
\* held count of every category of either side is the decimal count of its
\* entry (1 for a letter with no count, two-digit counts included).
C8_DecimalCounts ==
    (Loaded /\ fen[3] # Dash /\ DecimalHandOf(fen[3]).inRange)
        => current_state(states).hands = DecimalHandOf(fen[3]).hands

(***************************************************************************)
(* The piece letters of a placement field with the square each one lands   *)
(* on and whether the character written just before it is the marker.      *)
(***************************************************************************)
RECURSIVE RankLetters(_, _, _, _)
RankLetters(rank, k, i, found) ==
    IF k > Len(rank) THEN [i |-> i, found |-> found]
    ELSE IF rank[k] \in PieceLetters THEN
        RankLetters(rank, k + 1, i + 1,
                    found \cup {[sq |-> i, c |-> rank[k],
                                 marked |-> k > 1 /\ rank[k - 1] = "+"]})
    ELSE IF rank[k] = "+" THEN RankLetters(rank, k + 1, i, found)
    ELSE RankLetters(rank, k + 1, i + to_digit(rank[k]), found)

RECURSIVE RanksLetters(_, _, _)
RanksLetters(ranks, r, acc) ==
    IF r < 1 THEN acc.found
    ELSE RanksLetters(ranks, r - 1, RankLetters(ranks[r], 1, acc.i, acc.found))

PlacedLetters(tok) ==
    LET ranks == SplitSlash(tok, 1, << >>)
    IN  RanksLetters(ranks, Len(ranks), [i |-> 0, found |-> {}])

Promotable(c) == c \notin {"g", "G", "k", "K"}

\* C9: after a load, every promotable piece letter of the placement field is on
\* the board as its promoted category iff the character just before the
\* letter is the marker '+'.
C9_MarkerBindsNextLetterOnly ==
    Loaded =>
        \A e \in PlacedLetters(fen[1]) :
            Promotable(e.c) =>
                ((PieceType(current_state(states).mailbox[e.sq]) >= PROMO_OFFSET)
                    <=> e.marked)

\* C10: a load_fen call that aborts leaves the Board's history, side to move
\* and ply counter as they were before the call.
C10_AbortPublishesNothing ==
    [][outcome' = "panicked" => (states' = states /\ stm' = stm /\ ply' = ply)]_vars

(***************************************************************************)
(* Enumerating the actions of a loaded position.  The texts are written    *)
(* from placements of at most MaxPieces pieces: ranks from the one         *)
(* farthest from square 0 to the nearest, '9' for an empty rank, '1' for   *)
(* an empty square, '+' before a promoted piece.                           *)
(***************************************************************************)
MaxPieces == 2

GenSquares == {4, 22, 31, 61, 76}

GenPieces ==
    {Piece(PAWN, SENTE), Piece(PAWN, GOTE), Piece(BISHOP, SENTE),
     Piece(BISHOP, GOTE), Piece(SILVER, SENTE)}

GenHands ==
    {Dash, << "P", "L", "N", "p", "l", "n" >>,
     << "S", "G", "B", "R", "s", "g", "b", "r" >>}

PieceText(pc) ==
    (IF PieceType(pc) >= PROMO_OFFSET THEN << "+" >> ELSE << >>)
    \o << CHOOSE c \in PieceLetters :
            /\ LetterType(c) = PieceType(pc) % PROMO_OFFSET
            /\ LetterSide(c) = PieceSide(pc) >>

RECURSIVE RankText(_, _, _)
RankText(pl, r, f) ==
    IF f >= BOARD_LEN THEN << >>
    ELSE (IF (f + BOARD_LEN * r) \in DOMAIN pl
          THEN PieceText(pl[f + BOARD_LEN * r]) ELSE << "1" >>)
         \o RankText(pl, r, f + 1)

RECURSIVE BoardText(_, _)
BoardText(pl, r) ==
    (IF \E sq \in DOMAIN pl : RankOf(sq) = r THEN RankText(pl, r, 0) ELSE Nine)
    \o (IF r > 0 THEN << "/" >> \o BoardText(pl, r - 1) ELSE << >>)

GenPlacements ==
    UNION {[on -> GenPieces] :
             on \in {x \in SUBSET GenSquares : Cardinality(x) <= MaxPieces}}

GenFens ==
    {<< BoardText(pl, BOARD_LEN - 1), s, h >> :
        pl \in GenPlacements, s \in {Black, White}, h \in GenHands}

GetActions ==
    /\ outcome = "loaded"
    /\ actions' = get_actions(states, stm)
    /\ outcome' = "enumerated"
    /\ UNCHANGED <<pos, last, disciplined, states, stm, ply, fen,
                   debug_assertions, loads, iter>>

NextGen ==
    \/ \E text \in GenFens : outcome = "new" /\ LoadFen(text)
    \/ GetActions

SpecGen == Init /\ [][NextGen]_vars

Enumerated == outcome = "enumerated"

Current == current_state(states)

Moves == {actions[k] : k \in {j \in DOMAIN actions : actions[j].kind = "move"}}

Drops == {actions[k] : k \in {j \in DOMAIN actions : actions[j].kind = "drop"}}

Times(a) == Cardinality({k \in DOMAIN actions : actions[k] = a})

InZone(sq, side) == IF side = 0 THEN sq >= 54 ELSE sq < 27

\* C3: for every move (o,d) get_actions produces for a pawn, lance, knight,
\* silver, bishop or rook, the promoting action (o,d) is in the list iff o or d
\* is in the mover's promotion zone, and the non-promoting action (o,d) is in
\* the list.
C3_PromotionEitherEnd ==
    Enumerated =>
        \A a \in Moves :
            PieceType(Current.mailbox[a.from]) < GOLD =>
                /\ new_move(a.from, a.to, FALSE) \in Moves
                /\ (new_move(a.from, a.to, TRUE) \in Moves)
                      <=> (InZone(a.from, stm) \/ InZone(a.to, stm))

DropsOf(t) == {a.to : a \in {d \in Drops : PieceType(d.piece) = t}}

Held(t) == Current.hands[stm][t] > 0

\* C4: with the first side to move and holding a pawn, no pawn drop targets a
\* square of a file on which the first side has an unpromoted pawn.
C4_NoPawnDropOnPawnFile ==
    (Enumerated /\ stm = 0 /\ Held(PAWN)) =>
        \A p \in Squares :
            Current.mailbox[p] = Piece(PAWN, SENTE) =>
                \A sq \in DropsOf(PAWN) : FileOf(sq) # FileOf(p)

EmptySquares == {sq \in Squares : Current.mailbox[sq] = NONE}

\* C5: first side to move: no pawn or lance drop on 72..80, no knight drop on
\* 63..80; second side to move: no pawn or lance drop on 0..8, no knight drop
\* on 0..17; silver, gold, bishop and rook drop on every empty square.
C5_DropRanks ==
    Enumerated =>
        /\ stm = 0 => /\ (DropsOf(PAWN) \cup DropsOf(LANCE)) \cap (72 .. 80) = {}
                      /\ DropsOf(KNIGHT) \cap (63 .. 80) = {}
        /\ stm = 1 => /\ (DropsOf(PAWN) \cup DropsOf(LANCE)) \cap (0 .. 8) = {}
                      /\ DropsOf(KNIGHT) \cap (0 .. 17) = {}
        /\ \A t \in {SILVER, GOLD, BISHOP, ROOK} :
              Held(t) => DropsOf(t) = EmptySquares

\* C6: every unpromoted pawn of the side to move whose forward square is on
\* the board and not own-occupied has its non-promoting forward move in the
\* list exactly once and no move to any other square; every other pawn of the
\* side to move has no move at all.
C6_PawnMovesOnce ==
    Enumerated =>
        \A o \in Squares :
            Current.mailbox[o] = Piece(PAWN, stm) =>
                LET d == IF stm = 0 THEN o + 9 ELSE o - 9
                IN  IF d \in Squares /\ d \notin Current.sides[stm]
                    THEN /\ Times(new_move(o, d, FALSE)) = 1
                         /\ \A a \in Moves : a.from = o => a.to = d
                    ELSE \A a \in Moves : a.from # o

C6_Witness ==
    /\ Enumerated
    /\ stm = 1
    /\ Current.mailbox[31] = Piece(PAWN, GOTE)
    /\ Current.mailbox[4] = Piece(PAWN, GOTE)
    /\ Times(new_move(31, 22, FALSE)) = 1

\* C7: a first-side bishop move to square 53 has no promoting variant in the
\* list; a first-side bishop move to square 54 is in the list both promoting
\* and non-promoting.
C7_BishopAt53And54 ==
    (Enumerated /\ stm = 0) =>
        \A a \in Moves :
            Current.mailbox[a.from] = Piece(BISHOP, SENTE) =>
                /\ a.to = 53 => ~a.promo
                /\ a.to = 54 => /\ new_move(a.from, 54, TRUE) \in Moves
                                /\ new_move(a.from, 54, FALSE) \in Moves

C7_Witness ==
    /\ Enumerated
    /\ stm = 0
    /\ Current.mailbox[61] = Piece(BISHOP, SENTE)
    /\ Current.mailbox[22] = Piece(BISHOP, SENTE)
    /\ new_move(61, 53, FALSE) \in Moves
    /\ new_move(22, 54, TRUE) \in Moves

(***************************************************************************)
(* The history of a Board.                                                 *)
(***************************************************************************)
\* C11: after n load_fen calls that returned, on a fresh Board, the history
\* holds exactly n+1 snapshots, the first of them the empty Position and the
\* last of them the current snapshot.
C11_HistoryIsLoadsPlusOne ==
    /\ Len(states) = loads + 1
    /\ states[1] = PositionDefault
    /\ current_state(states) = states[loads + 1]

(***************************************************************************)
(* The effect of move_piece on one Position.                               *)
(***************************************************************************)
InExactly(st, sq, piece) ==
    /\ sq \in st.sides[PieceSide(piece)]
    /\ sq \notin st.sides[1 - PieceSide(piece)]
    /\ \A c \in 0 .. (NUM_PIECE_TYPES - 1) :
          sq \in st.pieces[c] <=> c = PieceType(piece)

SameSquare(st, nx, sq) ==
    /\ nx.mailbox[sq] = st.mailbox[sq]
    /\ \A s \in {SENTE, GOTE} : sq \in nx.sides[s] <=> sq \in st.sides[s]
    /\ \A c \in 0 .. (NUM_PIECE_TYPES - 1) :
          sq \in nx.pieces[c] <=> sq \in st.pieces[c]

MoveEffect(st, nx, from, piece, to) ==
    /\ nx.mailbox[from] = NONE
    /\ nx.mailbox[to] = piece
    /\ InExactly(nx, to, piece)
    /\ ThreeViews(nx)
    /\ \A sq \in Squares \ {from, to} : SameSquare(st, nx, sq)
    /\ nx.hands = st.hands

\* The views name the same piece on every square: a square whose mailbox entry
\* is a piece is in that piece's side set and category set and in no other.
SamePiece(st) ==
    \A sq \in Squares :
        IF st.mailbox[sq] = NONE THEN InNoView(st, sq)
        ELSE InExactly(st, sq, st.mailbox[sq])

\* C13 (as claimed): when the three-view invariant holds, the mailbox of
\* `from' is `piece', from # to and the mailbox of `to' is `victim' (NONE when
\* empty), move_piece(from, piece, to, victim) leaves the mailbox of `from' NONE and of `to' equal to `piece', `to' in
\* exactly the mover's side set and category set, the three views agreeing,
\* and every other square and both hands as they were.
C13_MovePieceEffect ==
    [][(/\ last'.op = "move_piece"
        /\ last'.sq # last'.to
        /\ pos.mailbox[last'.sq] = last'.piece
        /\ pos.mailbox[last'.to] = last'.victim
        /\ ThreeViews(pos))
          => MoveEffect(pos, pos', last'.sq, last'.piece, last'.to)]_vars

\* C13 (amended): the same effect, when moreover the side sets and category
\* sets of the Position name on every square the piece its mailbox names.
C13_MovePieceEffectSamePiece ==
    [][(/\ last'.op = "move_piece"
        /\ last'.sq # last'.to
        /\ pos.mailbox[last'.sq] = last'.piece
        /\ pos.mailbox[last'.to] = last'.victim
        /\ ThreeViews(pos)
        /\ SamePiece(pos))
          => /\ MoveEffect(pos, pos', last'.sq, last'.piece, last'.to)
             /\ SamePiece(pos')]_vars

C13_Witness ==
    /\ disciplined
    /\ last.op = "move_piece"
    /\ last.victim = Piece(PAWN, GOTE)
    /\ last.piece = Piece(GOLD, SENTE)
    /\ pos.mailbox[last.to] = Piece(GOLD, SENTE)
    /\ pos.mailbox[last.sq] = NONE
    /\ pos.mailbox[Bystander] = Piece(PAWN, SENTE)
    /\ Bystander \in pos.pieces[PAWN]

(***************************************************************************)
(* Iterating a Bitboard and asking for its lowest and highest square.      *)
(***************************************************************************)
IterSquares == {0, 8, 40, 63, 64, 80}

InitIter ==
    /\ pos = PositionDefault
    /\ last = NoCall
    /\ disciplined = TRUE
    /\ states = << >>
    /\ stm = 0
    /\ ply = 0
    /\ outcome = "new"
    /\ actions = << >>
    /\ fen = << >>
    /\ debug_assertions \in BOOLEAN
    /\ loads = 0
    /\ iter \in {IterOf(bb) : bb \in SUBSET IterSquares}

IterUnchanged ==
    UNCHANGED <<pos, last, disciplined, states, stm, ply, outcome, actions, fen,
                debug_assertions, loads>>

\* Biterator::next: None on an empty board, else Some(pop_lsb()).
IterNext ==
    /\ iter.ret # "panic"
    /\ iter' = IF iter.board = EMPTY
               THEN [iter EXCEPT !.ret = "none"]
               ELSE [iter EXCEPT !.ret = "some",
                                 !.board = pop_lsb(iter.board).board,
                                 !.yielded = Append(@, pop_lsb(iter.board).lsb)]
    /\ IterUnchanged

\* bb.lsb() and bb.msb(): on an empty set the debug_assert! panics in a build
\* that checks it.
CallLsbMsb ==
    /\ iter.ret # "panic"
    /\ iter' = IF iter.bb = EMPTY /\ debug_assertions
               THEN [iter EXCEPT !.ret = "panic"]
               ELSE [iter EXCEPT !.lsb = lsb(iter.bb), !.msb = msb(iter.bb)]
    /\ IterUnchanged

NextIter == IterNext \/ CallLsbMsb

SpecIter == InitIter /\ [][NextIter]_vars

YieldedSet == {iter.yielded[k] : k \in DOMAIN iter.yielded}

\* C12: the squares next() has returned so far are strictly ascending and are
\* exactly the squares of the set no longer in the iterator; once next()
\* returns None the iterator is empty (so it returns None from then on), every
\* square of the set has been returned once, after exactly popcount Some
\* results, and the set itself still holds all its squares.
C12_AscendingOnceThenNone ==
    /\ \A i \in DOMAIN iter.yielded : \A j \in DOMAIN iter.yielded :
          i < j => iter.yielded[i] < iter.yielded[j]
    /\ YieldedSet = iter.bb \ iter.board
    /\ iter.board \subseteq iter.bb
    /\ iter.ret = "none" =>
          /\ iter.board = EMPTY
          /\ iter.yielded = Biterator(iter.bb)
          /\ Len(iter.yielded) = Cardinality(iter.bb)

C12_Witness ==
    /\ iter.ret = "none"
    /\ iter.bb = IterSquares
    /\ iter.yielded = << 0, 8, 40, 63, 64, 80 >>

\* C14: on a non-empty set msb() is the index of the highest square: it is at
\* least lsb() and equals lsb() exactly when the set is a singleton.
C14_MsbIsHighestSquare ==
    (iter.msb >= 0 /\ iter.bb # EMPTY) =>
        /\ iter.msb \in iter.bb
        /\ \A x \in iter.bb : x <= iter.msb
        /\ iter.msb >= iter.lsb
        /\ (iter.msb = iter.lsb) <=> (Cardinality(iter.bb) = 1)

====
